---------------------------- MODULE Spec2Model ----------------------------
(***************************************************************************)
(* The schedule-driven alarm engine of src/App.tsx: the worker clock, the  *)
(* alarm check run on every tick, the fired-alarm dedup refs, the alarm    *)
(* state with its auto-stop timeout, the test-sound toggle and the audio   *)
(* unlock probe.                                                           *)
(*                                                                         *)
(* Time is the wall clock in whole seconds since a Sunday 00:00:00.  A     *)
(* string "HH:MM" is the sequence of its character codes, so that the      *)
(* code's string equality and string ordering are modelled as such.        *)
(* The Arabic day names of DAYS_OF_WEEK are written in English.            *)
(* React state updates of one handler, the re-render and the effects that  *)
(* depend on the changed state are one atomic step.                        *)
(***************************************************************************)
EXTENDS Integers, Sequences, FiniteSets, TLC

VARIABLES
    now,                \* the wall clock (new Date()), in seconds
    currentUser,        \* useState currentUser; "" is null
    classes,            \* useState classes, a sequence of SchoolClass
    stored,             \* localStorage user_<u>_classes
    currentTime,        \* useState currentTime
    firedAlarms,        \* firedAlarmsRef.current
    lastMinute,         \* lastMinuteRef.current
    activeAlarm,        \* useState activeAlarm; NoAlarm is null
    onmessageAlarm,     \* activeAlarm as closed over by worker.onmessage
    isTestingSound,     \* useState isTestingSound
    isAudioUnlocked,    \* useState isAudioUnlocked
    autoStopTimerRef,   \* autoStopTimerRef.current; 0 is null
    timers,             \* the outstanding window.setTimeout timers
    audioPaused,        \* audioRef.current.paused
    pendingPlay,        \* handlers of the pending play() promises
    permission,         \* Notification.permission
    notifications,      \* the notifications shown so far
    mediaStop,          \* the mediaSession 'stop' handler is registered
    passed,             \* history: <<id, instant>> of every pass of the dedup check
    repeats,            \* history: <<id, minute>> that passed it more than once
    ringingSince,       \* history: instant of the first trigger since the alarm was last off, -1 if none
    advances,           \* history: number of clock advances so far
    timer,              \* the worker's variable timer; 0 is null
    intervals,          \* the worker's live setInterval handles
    lastMessage,        \* history: the last message the worker handled
    customAlarmSound,   \* useState customAlarmSound, a data URL; NoSound is null
    customSoundName,    \* useState customSoundName; "" is null
    storedSound,        \* localStorage user_<u>_custom_alarm_sound and _name
    readers,            \* the files whose FileReader has not called onload yet
    lastUpload,         \* history: outcome of the last handleFileUpload
    storedParses,       \* JSON.parse accepts the text of user_<u>_classes
    dropped,            \* history: <<id, minute>> of every boundary hit of a tick
                        \* made while an alarm was ringing that was not recorded
    motivation          \* useState motivation; "" until a request settles

vars == <<now, currentUser, classes, stored, storedParses, currentTime, firedAlarms, lastMinute,
          activeAlarm, onmessageAlarm, isTestingSound, isAudioUnlocked,
          autoStopTimerRef, timers, audioPaused, pendingPlay, permission,
          notifications, mediaStop, passed, repeats, dropped, ringingSince, advances,
          timer, intervals, lastMessage, customAlarmSound, customSoundName,
          storedSound, readers, lastUpload, motivation>>

workerVars == <<timer, intervals, lastMessage>>

soundVars == <<customAlarmSound, customSoundName, storedSound, readers, lastUpload>>

----------------------------------------------------------------------------
(* Bounds and program constants *)

MaxAdvance == 2

AUTO_STOP_SECONDS == 20

Delays == {1, 60, 86400}

Users == {"u1"}

\* The list positions whose enable switch the user presses
ToggleIndices == {1}

DAYS_OF_WEEK == <<"Sun", "Mon", "Tue", "Wed", "Thu", "Fri", "Sat">>

TEST_LABEL == "test"

NoAlarm == [isActive |-> FALSE, className |-> "", type |-> "none"]

\* A data URL: the file it encodes and the length of its base64 text
NoSound == [file |-> "", length |-> 0]

NoStoredSound == [sound |-> NoSound, name |-> ""]

----------------------------------------------------------------------------
(* Date and string helpers *)

getDay(t) == (t \div 86400) % 7

getHours(t) == (t \div 3600) % 24

getMinutes(t) == (t \div 60) % 60

\* Mutant of padStart2: the number is not padded
padStart2Unpadded(n) == IF n < 10 THEN <<48 + n>> ELSE <<48 + (n \div 10), 48 + (n % 10)>>

\* n.toString().padStart(2, '0') for 0 <= n <= 99, as character codes
padStart2(n) == IF n < 10 THEN <<48, 48 + n>> ELSE <<48 + (n \div 10), 48 + (n % 10)>>

\* hours.padStart + ':' + minutes.padStart
timeStrOf(t) == padStart2(getHours(t)) \o <<58>> \o padStart2(getMinutes(t))

dayNameOf(t) == DAYS_OF_WEEK[getDay(t) + 1]

\* JavaScript's a < b on strings: lexicographic on code units
RECURSIVE strLess(_, _)
strLess(a, b) ==
    IF b = <<>> THEN FALSE
    ELSE IF a = <<>> THEN TRUE
    ELSE IF Head(a) # Head(b) THEN Head(a) < Head(b)
    ELSE strLess(Tail(a), Tail(b))

strGeq(a, b) == ~strLess(a, b)

\* "HH:MM".split(':').map(Number), as minutes of the day
minutesOfDay(s) ==
    ((s[1] - 48) * 10 + (s[2] - 48)) * 60 + (s[4] - 48) * 10 + (s[5] - 48)

----------------------------------------------------------------------------
(* The schedules the store may hold *)

ClassA ==
    [id |-> "1", name |-> "A", startTime |-> <<48, 56, 58, 48, 48>>,   \* "08:00"
     endTime |-> <<48, 56, 58, 51, 48>>,                                \* "08:30"
     days |-> {"Sun", "Mon"}, active |-> TRUE]

ClassB30 ==
    [id |-> "2", name |-> "B", startTime |-> <<48, 56, 58, 49, 48>>,   \* "08:10"
     endTime |-> <<48, 56, 58, 51, 48>>,                                \* "08:30"
     days |-> {"Sun"}, active |-> TRUE]

ClassB31 ==
    [id |-> "2", name |-> "B", startTime |-> <<48, 56, 58, 49, 48>>,   \* "08:10"
     endTime |-> <<48, 56, 58, 51, 49>>,                                \* "08:31"
     days |-> {"Sun"}, active |-> TRUE]

StoredSchedules == {<<ClassA, ClassB30>>, <<ClassA, ClassB31>>}

\* Sunday 08:29:59
StartInstant == 8 * 3600 + 29 * 60 + 59

----------------------------------------------------------------------------
(* The audio element *)

\* The part of the state the alarm functions read and write
AlarmSide ==
    [activeAlarm |-> activeAlarm, isTestingSound |-> isTestingSound,
     isAudioUnlocked |-> isAudioUnlocked, autoStopTimerRef |-> autoStopTimerRef,
     timers |-> timers, audioPaused |-> audioPaused, pendingPlay |-> pendingPlay]

\* audio.play() with the handlers of `kind` attached: refused at once (the
\* catch handler runs), or accepted with its promise pending
play(st, kind, ok) ==
    IF ok
    THEN [st EXCEPT !.audioPaused = FALSE, !.pendingPlay = @ \cup {kind}]
    ELSE IF kind = "alarm" THEN [st EXCEPT !.isAudioUnlocked = FALSE] ELSE st

\* audio.pause(): the pending play() promises are rejected
pause(st) ==
    IF st.audioPaused THEN st
    ELSE [st EXCEPT !.audioPaused = TRUE, !.pendingPlay = {},
                    !.isAudioUnlocked = IF "alarm" \in st.pendingPlay THEN FALSE ELSE @]

\* Mutant of unlockAudio: the probe is issued whatever isAudioUnlocked is
unlockAudioAlways(st, unlocked, ok) == play(st, "probe", ok)

\* unlockAudio, with isAudioUnlocked as its closure holds it
unlockAudio(st, unlocked, ok) ==
    IF ~unlocked THEN play(st, "probe", ok) ELSE st

----------------------------------------------------------------------------
(* The alarm state *)

\* window.setTimeout returns a positive handle no outstanding timer has
FreshTimerId(st) ==
    CHOOSE i \in 1..(Cardinality(st.timers) + 1) : \A tm \in st.timers : tm.id # i

clearTimeout(ts, id) == {tm \in ts : tm.id # id}

\* Mutant of triggerAlarm: the previous timeout is not cleared before arming
triggerAlarmKeepsOldTimer(st, className, type, t, ok) ==
    LET s1 == [st EXCEPT !.activeAlarm =
                   [isActive |-> TRUE, className |-> className, type |-> type]]
        s2 == play(s1, "alarm", ok)
        id == FreshTimerId(s2)
    IN  [s2 EXCEPT !.autoStopTimerRef = id,
                   !.timers = @ \cup {[id |-> id, at |-> t + AUTO_STOP_SECONDS]}]

\* Mutant of triggerAlarm: a refused play() ends the function
triggerAlarmPlayGated(st, className, type, t, ok) ==
    IF ~ok THEN play(st, "alarm", ok)
    ELSE LET s1 == [st EXCEPT !.activeAlarm =
                        [isActive |-> TRUE, className |-> className, type |-> type]]
             s2 == play(s1, "alarm", ok)
             s3 == IF s2.autoStopTimerRef # 0
                   THEN [s2 EXCEPT !.timers = clearTimeout(@, s2.autoStopTimerRef)]
                   ELSE s2
             id == FreshTimerId(s3)
         IN  [s3 EXCEPT !.autoStopTimerRef = id,
                        !.timers = @ \cup {[id |-> id, at |-> t + AUTO_STOP_SECONDS]}]

triggerAlarm(st, className, type, t, ok) ==
    LET s1 == [st EXCEPT !.activeAlarm =
                   [isActive |-> TRUE, className |-> className, type |-> type]]
        s2 == play(s1, "alarm", ok)
        s3 == IF s2.autoStopTimerRef # 0
              THEN [s2 EXCEPT !.timers = clearTimeout(@, s2.autoStopTimerRef)]
              ELSE s2
        id == FreshTimerId(s3)
    IN  [s3 EXCEPT !.autoStopTimerRef = id,
                   !.timers = @ \cup {[id |-> id, at |-> t + AUTO_STOP_SECONDS]}]

\* Mutant of stopAlarm: the outstanding timeout is not cleared
stopAlarmKeepsTimer(st) ==
    pause([st EXCEPT !.activeAlarm = NoAlarm, !.isTestingSound = FALSE,
                     !.autoStopTimerRef = 0])

stopAlarm(st) ==
    LET s1 == [st EXCEPT !.activeAlarm = NoAlarm, !.isTestingSound = FALSE]
        s2 == IF s1.autoStopTimerRef # 0
              THEN [s1 EXCEPT !.timers = clearTimeout(@, s1.autoStopTimerRef),
                              !.autoStopTimerRef = 0]
              ELSE s1
    IN  pause(s2)

\* Writes an AlarmSide record back to the variables
SetAlarmSide(st) ==
    /\ activeAlarm' = st.activeAlarm
    /\ isTestingSound' = st.isTestingSound
    /\ isAudioUnlocked' = st.isAudioUnlocked
    /\ autoStopTimerRef' = st.autoStopTimerRef
    /\ timers' = st.timers
    /\ audioPaused' = st.audioPaused
    /\ pendingPlay' = st.pendingPlay


----------------------------------------------------------------------------
(* The alarm check *)

\* The state checkAlarms reads and writes
TickSide ==
    [activeAlarm |-> activeAlarm, isTestingSound |-> isTestingSound,
     isAudioUnlocked |-> isAudioUnlocked, autoStopTimerRef |-> autoStopTimerRef,
     timers |-> timers, audioPaused |-> audioPaused, pendingPlay |-> pendingPlay,
     firedAlarms |-> firedAlarms, lastMinute |-> lastMinute,
     notifications |-> notifications,
     triggered |-> <<>>,    \* history: the ids that passed, in order
     thrown |-> FALSE]      \* an exception has left the forEach of line 267

\* Mutant of activeToday: the enabled flag is not looked at
activeTodayIgnoresEnabled(c, t) == dayNameOf(t) \in c.days

\* The class takes part in the check at instant t
activeToday(c, t) == c.active /\ dayNameOf(t) \in c.days

\* Mutant of isBoundaryHit: the start time is a boundary too
isBoundaryHitStartToo(c, t) ==
    activeToday(c, t) /\ (timeStrOf(t) = c.endTime \/ timeStrOf(t) = c.startTime)

\* timeStr === c.endTime for a class that takes part
isBoundaryHit(c, t) == activeToday(c, t) /\ timeStrOf(t) = c.endTime

\* Mutant of shouldFire: the fired set is not consulted
shouldFireNoDedup(c, st, t) == isBoundaryHit(c, t)

\* The class passes the check of line 270
shouldFire(c, st, t) == isBoundaryHit(c, t) /\ c.id \notin st.firedAlarms

\* The minute rollover of lines 262-265
resetOnNewMinute(st, t) ==
    IF getMinutes(t) # st.lastMinute
    THEN [st EXCEPT !.firedAlarms = {}, !.lastMinute = getMinutes(t)]
    ELSE st

\* Mutant of fireClass: the notification is shown whatever the permission
fireClassAlwaysNotifies(st, c, t, ok) ==
    LET s1 == [st EXCEPT !.firedAlarms = @ \cup {c.id}]
        s2 == triggerAlarm(s1, c.name, "end", t, ok)
        s3 == [s2 EXCEPT !.notifications = @ \cup {[className |-> c.name, at |-> t]}]
    IN  [s3 EXCEPT !.triggered = Append(@, c.id)]

\* The body of classes.forEach for one class that passes
fireClass(st, c, t, ok) ==
    LET s1 == [st EXCEPT !.firedAlarms = @ \cup {c.id}]
        s2 == triggerAlarm(s1, c.name, "end", t, ok)
        s3 == IF permission = "granted"
              THEN [s2 EXCEPT !.notifications = @ \cup {[className |-> c.name, at |-> t]}]
              ELSE IF permission = "unavailable"
              THEN [s2 EXCEPT !.thrown = TRUE]
              ELSE s2
    IN  [s3 EXCEPT !.triggered = Append(@, c.id)]

RECURSIVE forEachClass(_, _, _, _, _)
forEachClass(cs, i, st, t, ok) ==
    IF i > Len(cs) \/ st.thrown THEN st
    ELSE forEachClass(cs, i + 1,
                      IF shouldFire(cs[i], st, t) THEN fireClass(st, cs[i], t, ok) ELSE st,
                      t, ok)

\* The guard of line 255, on the values the handler's closure holds
checkGuard(user, alarm) == user = "" \/ alarm.isActive

checkAlarms(st, t, ok) ==
    IF checkGuard(currentUser, onmessageAlarm) THEN st
    ELSE forEachClass(classes, 1, resetOnNewMinute(st, t), t, ok)

\* Mutant of isOngoing: the end minute is inside the window
isOngoingEndInclusive(c, t) ==
    /\ c.active /\ dayNameOf(t) \in c.days
    /\ strGeq(timeStrOf(t), c.startTime) /\ ~strLess(c.endTime, timeStrOf(t))

\* The predicate of classes.find in currentOngoingClass
isOngoing(c, t) ==
    /\ c.active /\ dayNameOf(t) \in c.days
    /\ strGeq(timeStrOf(t), c.startTime) /\ strLess(timeStrOf(t), c.endTime)

\* Mutant of currentOngoingClass: the last class that matches is reported
currentOngoingClassLast(cs, t) ==
    IF \E i \in 1..Len(cs) : isOngoing(cs[i], t)
    THEN CHOOSE i \in 1..Len(cs) :
             isOngoing(cs[i], t) /\ \A j \in (i + 1)..Len(cs) : ~isOngoing(cs[j], t)
    ELSE 0

\* currentOngoingClass: the index of the class found, 0 for undefined
currentOngoingClass(cs, t) ==
    IF \E i \in 1..Len(cs) : isOngoing(cs[i], t)
    THEN CHOOSE i \in 1..Len(cs) :
             isOngoing(cs[i], t) /\ \A j \in 1..(i - 1) : ~isOngoing(cs[j], t)
    ELSE 0

absMinute(t) == t \div 60

----------------------------------------------------------------------------
(* Initial state *)

\* What the browser holds before the page is mounted: the saved schedule and
\* the user restored from last_active_user, with the list loaded for them
InitStorage ==
    /\ stored \in StoredSchedules
    /\ storedParses = TRUE
    /\ currentUser \in {""} \cup Users
    /\ classes = IF currentUser = "" THEN <<>> ELSE stored
    /\ storedSound = NoStoredSound

\* The state and refs of App after the first render and its effects
InitState ==
    /\ now = StartInstant
    /\ currentTime = now
    /\ firedAlarms = {}
    /\ lastMinute = -1
    /\ activeAlarm = NoAlarm
    /\ onmessageAlarm = NoAlarm
    /\ isTestingSound = FALSE
    /\ isAudioUnlocked = FALSE
    /\ autoStopTimerRef = 0
    /\ timers = {}
    /\ audioPaused = TRUE
    /\ pendingPlay = {}
    /\ notifications = {}
    /\ mediaStop = (currentUser # "")
    /\ passed = {}
    /\ dropped = {}
    /\ repeats = {}
    /\ ringingSince = -1
    /\ advances = 0
    /\ customAlarmSound = IF currentUser = "" THEN NoSound ELSE storedSound.sound
    /\ customSoundName = IF currentUser = "" THEN "" ELSE storedSound.name
    /\ readers = {}
    /\ lastUpload = "none"
    /\ motivation = ""

\* A browser whose Notification constructor works: permission not yet asked
\* for, or granted
InitPermission == permission \in {"default", "granted"}

\* The worker the mount effect created has handled its 'start'
InitWorker ==
    /\ timer = 1
    /\ intervals = {1}
    /\ lastMessage = "start"

Init == InitStorage /\ InitState /\ InitPermission /\ InitWorker

----------------------------------------------------------------------------
(* The clock *)

\* Wall-clock time passes; a due timeout runs before time moves past it
Advance(d) ==
    /\ advances < MaxAdvance
    /\ d > 0
    /\ \A tm \in timers : now + d <= tm.at
    /\ now' = now + d
    /\ advances' = advances + 1
    /\ UNCHANGED workerVars
    /\ UNCHANGED motivation
    /\ UNCHANGED soundVars
    /\ UNCHANGED <<currentUser, classes, stored, storedParses, currentTime, firedAlarms, lastMinute,
                   activeAlarm, onmessageAlarm, isTestingSound, isAudioUnlocked,
                   autoStopTimerRef, timers, audioPaused, pendingPlay, permission,
                   notifications, mediaStop, passed, repeats, dropped, ringingSince>>

\* Mutant of TickStep: an exception or a refused play() in the handler ends
\* the worker's interval
TickStepHandlerDies(ok, rec) ==
    LET st   == checkAlarms(TickSide, now, ok)
        ids  == {st.triggered[k] : k \in 1..Len(st.triggered)}
        new  == {<<id, now>> : id \in ids}
        again == {<<id, absMinute(now)>> : id \in
                     {x \in ids :
                         \/ \E o \in passed : o[1] = x /\ absMinute(o[2]) = absMinute(now)
                         \/ \E k, l \in 1..Len(st.triggered) :
                                k # l /\ st.triggered[k] = x /\ st.triggered[l] = x}}
    IN  /\ intervals # {}
        /\ currentTime' = now
        /\ SetAlarmSide(st)
        /\ firedAlarms' = st.firedAlarms
        /\ lastMinute' = st.lastMinute
        /\ notifications' = st.notifications
        /\ passed' = passed \cup new
        /\ dropped' = IF ~rec THEN dropped
                       ELSE dropped \cup
                            {<<classes[i].id, absMinute(now)>> : i \in
                                 {j \in 1..Len(classes) :
                                     /\ activeAlarm.isActive
                                     /\ isBoundaryHit(classes[j], now)
                                     /\ classes[j].id \notin st.firedAlarms}}
        /\ repeats' = repeats \cup again
        /\ ringingSince' = IF st.triggered # <<>> /\ ringingSince < 0 THEN now
                           ELSE ringingSince
        /\ intervals' = IF st.thrown \/ (~ok /\ st.triggered # <<>>) THEN {} ELSE intervals
        /\ UNCHANGED <<timer, lastMessage>>
        /\ UNCHANGED motivation
        /\ UNCHANGED soundVars
        /\ UNCHANGED <<now, currentUser, classes, stored, storedParses, onmessageAlarm, permission,
                       mediaStop, advances>>

\* worker.onmessage: a tick of the worker is processed.  `rec` is whether
\* the history of unrecorded hits is kept on this step.
TickStep(ok, rec) ==
    LET st   == checkAlarms(TickSide, now, ok)
        ids  == {st.triggered[k] : k \in 1..Len(st.triggered)}
        new  == {<<id, now>> : id \in ids}
        again == {<<id, absMinute(now)>> : id \in
                     {x \in ids :
                         \/ \E o \in passed : o[1] = x /\ absMinute(o[2]) = absMinute(now)
                         \/ \E k, l \in 1..Len(st.triggered) :
                                k # l /\ st.triggered[k] = x /\ st.triggered[l] = x}}
    IN  /\ intervals # {}
        /\ currentTime' = now
        /\ SetAlarmSide(st)
        /\ firedAlarms' = st.firedAlarms
        /\ lastMinute' = st.lastMinute
        /\ notifications' = st.notifications
        /\ passed' = passed \cup new
        /\ dropped' = IF ~rec THEN dropped
                       ELSE dropped \cup
                            {<<classes[i].id, absMinute(now)>> : i \in
                                 {j \in 1..Len(classes) :
                                     /\ activeAlarm.isActive
                                     /\ isBoundaryHit(classes[j], now)
                                     /\ classes[j].id \notin st.firedAlarms}}
        /\ repeats' = repeats \cup again
        /\ ringingSince' = IF st.triggered # <<>> /\ ringingSince < 0 THEN now
                           ELSE ringingSince
        /\ UNCHANGED workerVars
        /\ UNCHANGED motivation
        /\ UNCHANGED soundVars
        /\ UNCHANGED <<now, currentUser, classes, stored, storedParses, onmessageAlarm, permission,
                       mediaStop, advances>>

Tick(ok) == TickStep(ok, FALSE)

TickRecording(ok) == TickStep(ok, TRUE)

\* The auto-stop timeout of triggerAlarm runs stopAlarm
AutoStop ==
    \E tm \in timers :
        /\ tm.at <= now
        /\ SetAlarmSide(stopAlarm([AlarmSide EXCEPT !.timers = @ \ {tm}]))
        /\ ringingSince' = -1
        /\ UNCHANGED workerVars
        /\ UNCHANGED motivation
        /\ UNCHANGED soundVars
        /\ UNCHANGED <<now, currentUser, classes, stored, storedParses, currentTime,
                       firedAlarms, lastMinute, onmessageAlarm, permission,
                       notifications, mediaStop, passed, repeats, dropped, advances>>

----------------------------------------------------------------------------
(* User interface handlers.  `ok` is whether the audio element accepts a   *)
(* play() request made by the handler.                                     *)

\* The stop button of the alarm overlay; the click bubbles to the dashboard
\* element, whose handler is unlockAudio
StopButton(ok) ==
    /\ currentUser # ""
    /\ activeAlarm.isActive
    /\ SetAlarmSide(unlockAudio(stopAlarm(AlarmSide), isAudioUnlocked, ok))
    /\ ringingSince' = -1
    /\ UNCHANGED workerVars
    /\ UNCHANGED motivation
    /\ UNCHANGED soundVars
    /\ UNCHANGED <<now, currentUser, classes, stored, storedParses, currentTime, firedAlarms,
                   lastMinute, onmessageAlarm, permission, notifications, mediaStop,
                   passed, repeats, dropped, advances>>

\* The mediaSession 'stop' action handler: stopAlarm alone
MediaSessionStop ==
    /\ mediaStop
    /\ SetAlarmSide(stopAlarm(AlarmSide))
    /\ ringingSince' = -1
    /\ UNCHANGED workerVars
    /\ UNCHANGED motivation
    /\ UNCHANGED soundVars
    /\ UNCHANGED <<now, currentUser, classes, stored, storedParses, currentTime, firedAlarms,
                   lastMinute, onmessageAlarm, permission, notifications, mediaStop,
                   passed, repeats, dropped, advances>>

\* toggleTestSound, then the click bubbles to the dashboard element
toggleTestSound(st, unlocked, t, ok) ==
    LET s1 == unlockAudio(st, unlocked, ok)
        s2 == IF st.isTestingSound
              THEN stopAlarm(s1)
              ELSE triggerAlarm([s1 EXCEPT !.isTestingSound = TRUE],
                                TEST_LABEL, "start", t, ok)
    IN  unlockAudio(s2, unlocked, ok)

ToggleTestSound(ok) ==
    /\ currentUser # ""
    /\ SetAlarmSide(toggleTestSound(AlarmSide, isAudioUnlocked, now, ok))
    /\ ringingSince' = IF isTestingSound THEN -1
                       ELSE IF ringingSince < 0 THEN now ELSE ringingSince
    /\ UNCHANGED workerVars
    /\ UNCHANGED motivation
    /\ UNCHANGED soundVars
    /\ UNCHANGED <<now, currentUser, classes, stored, storedParses, currentTime, firedAlarms,
                   lastMinute, onmessageAlarm, permission, notifications, mediaStop,
                   passed, repeats, dropped, advances>>

\* audio.load() after the source is set: playback is reset
load(st) == pause(st)

\* handleLogin, then the effects of the new user: the schedule is loaded
\* (what JSON.parse rejects is logged and the list stays as it is), the list
\* is saved, the audio source is set and the worker effect runs again
Login(u, ok) ==
    /\ currentUser = ""
    /\ currentUser' = u
    /\ classes' = IF storedParses THEN stored ELSE classes
    /\ stored' = classes'
    /\ storedParses' = TRUE
    /\ customAlarmSound' = storedSound.sound
    /\ customSoundName' = IF storedSound.sound # NoSound THEN storedSound.name ELSE ""
    /\ onmessageAlarm' = activeAlarm
    /\ mediaStop' = TRUE
    /\ SetAlarmSide(load(unlockAudio(AlarmSide, isAudioUnlocked, ok)))
    /\ UNCHANGED workerVars
    /\ UNCHANGED motivation
    /\ UNCHANGED <<now, currentTime, firedAlarms, lastMinute, permission,
                   notifications, passed, repeats, dropped, ringingSince, advances,
                   storedSound, readers, lastUpload>>

\* handleLogout; the click bubbles to the dashboard element.  The effects of
\* the null user empty the class list and run the worker effect again.
Logout(ok) ==
    /\ currentUser # ""
    /\ currentUser' = ""
    /\ classes' = <<>>
    /\ customAlarmSound' = NoSound
    /\ customSoundName' = ""
    /\ LET st == unlockAudio(stopAlarm(AlarmSide), isAudioUnlocked, ok)
       IN  /\ SetAlarmSide(st)
           /\ onmessageAlarm' = st.activeAlarm
    /\ ringingSince' = -1
    /\ UNCHANGED workerVars
    /\ UNCHANGED motivation
    /\ UNCHANGED <<now, stored, storedParses, currentTime, firedAlarms, lastMinute, permission,
                   notifications, mediaStop, passed, repeats, dropped, advances,
                   storedSound, readers, lastUpload>>

\* toggleClassActive of the class at index i, then unlockAudio; the list is
\* saved and the worker effect runs again with the alarm state of this render
toggleClassActive(cs, id) ==
    [i \in 1..Len(cs) |-> IF cs[i].id = id THEN [cs[i] EXCEPT !.active = ~@] ELSE cs[i]]

ToggleClassActive(i, ok) ==
    /\ currentUser # ""
    /\ i \in 1..Len(classes)
    /\ classes' = toggleClassActive(classes, classes[i].id)
    /\ stored' = classes'
    /\ storedParses' = TRUE
    /\ onmessageAlarm' = activeAlarm
    /\ SetAlarmSide(unlockAudio(AlarmSide, isAudioUnlocked, ok))
    /\ UNCHANGED workerVars
    /\ UNCHANGED motivation
    /\ UNCHANGED soundVars
    /\ UNCHANGED <<now, currentUser, currentTime, firedAlarms, lastMinute, permission,
                   notifications, mediaStop, passed, repeats, dropped, ringingSince, advances>>

\* A click on the dashboard outside the controls: unlockAudio
DashboardClick(ok) ==
    /\ currentUser # ""
    /\ ~isAudioUnlocked
    /\ SetAlarmSide(unlockAudio(AlarmSide, isAudioUnlocked, ok))
    /\ UNCHANGED workerVars
    /\ UNCHANGED motivation
    /\ UNCHANGED soundVars
    /\ UNCHANGED <<now, currentUser, classes, stored, storedParses, currentTime, firedAlarms,
                   lastMinute, onmessageAlarm, permission, notifications, mediaStop,
                   passed, repeats, dropped, ringingSince, advances>>

\* Playback starts: the pending play() promises resolve.  The probe's
\* handler pauses the element and records the unlock.
playResolved(st) ==
    LET s1 == [st EXCEPT !.pendingPlay = {}]
    IN  IF "probe" \in st.pendingPlay
        THEN [pause(s1) EXCEPT !.isAudioUnlocked = TRUE]
        ELSE s1

PlayStarts ==
    /\ pendingPlay # {}
    /\ SetAlarmSide(playResolved(AlarmSide))
    /\ UNCHANGED workerVars
    /\ UNCHANGED motivation
    /\ UNCHANGED soundVars
    /\ UNCHANGED <<now, currentUser, classes, stored, storedParses, currentTime, firedAlarms,
                   lastMinute, onmessageAlarm, permission, notifications, mediaStop,
                   passed, repeats, dropped, ringingSince, advances>>

\* The user grants the permission Notification.requestPermission() asks for.
\* A denial is not a step: the code tests the permission against "granted"
\* only, so "denied" behaves as "default" does.
PermissionGranted ==
    /\ permission = "default"
    /\ permission' = "granted"
    /\ UNCHANGED workerVars
    /\ UNCHANGED motivation
    /\ UNCHANGED soundVars
    /\ UNCHANGED <<now, currentUser, classes, stored, storedParses, currentTime, firedAlarms,
                   lastMinute, activeAlarm, onmessageAlarm, isTestingSound,
                   isAudioUnlocked, autoStopTimerRef, timers, audioPaused, pendingPlay,
                   notifications, mediaStop, passed, repeats, dropped, ringingSince, advances>>

----------------------------------------------------------------------------

\* The time to the next auto-stop deadline, when there is one ahead
ToDeadline == {tm.at - now : tm \in {x \in timers : x.at > now}}

Next ==
    \/ \E d \in Delays \cup ToDeadline : Advance(d)
    \/ \E ok \in BOOLEAN : Tick(ok)
    \/ AutoStop
    \/ \E ok \in BOOLEAN : StopButton(ok)
    \/ MediaSessionStop
    \/ \E ok \in BOOLEAN : ToggleTestSound(ok)
    \/ \E u \in Users, ok \in BOOLEAN : Login(u, ok)
    \/ \E ok \in BOOLEAN : Logout(ok)
    \/ \E i \in ToggleIndices, ok \in BOOLEAN : ToggleClassActive(i, ok)
    \/ \E ok \in BOOLEAN : DashboardClick(ok)
    \/ PlayStarts
    \/ PermissionGranted

Spec == Init /\ [][Next]_vars

\* The same steps, with the history of unrecorded hits kept by the ticks
DropNext ==
    \/ \E d \in Delays \cup ToDeadline : Advance(d)
    \/ \E ok \in BOOLEAN : TickRecording(ok)
    \/ AutoStop
    \/ \E ok \in BOOLEAN : StopButton(ok)
    \/ MediaSessionStop
    \/ \E ok \in BOOLEAN : ToggleTestSound(ok)
    \/ \E u \in Users, ok \in BOOLEAN : Login(u, ok)
    \/ \E ok \in BOOLEAN : Logout(ok)
    \/ \E i \in ToggleIndices, ok \in BOOLEAN : ToggleClassActive(i, ok)
    \/ \E ok \in BOOLEAN : DashboardClick(ok)
    \/ PlayStarts
    \/ PermissionGranted

SpecDrop == Init /\ [][DropNext]_vars

----------------------------------------------------------------------------
(* A second specification for the matching functions: the application is   *)
(* opened with a stored schedule at any minute of the first MatchDays days  *)
(* and ticks are processed at that instant.                                 *)

MatchDays == 2

ClassC ==
    [id |-> "3", name |-> "C", startTime |-> <<48, 57, 58, 48, 53>>,   \* "09:05"
     endTime |-> <<49, 48, 58, 48, 48>>,                                \* "10:00"
     days |-> {"Sun", "Mon"}, active |-> TRUE]

ClassD ==
    [id |-> "4", name |-> "D", startTime |-> <<50, 50, 58, 52, 53>>,   \* "22:45"
     endTime |-> <<50, 51, 58, 53, 57>>,                                \* "23:59"
     days |-> {"Mon"}, active |-> TRUE]

ClassE ==
    [id |-> "5", name |-> "E", startTime |-> <<48, 48, 58, 48, 48>>,   \* "00:00"
     endTime |-> <<48, 48, 58, 48, 57>>,                                \* "00:09"
     days |-> {"Sun"}, active |-> TRUE]

ClassF ==
    [id |-> "6", name |-> "F", startTime |-> <<50, 51, 58, 48, 48>>,   \* "23:00"
     endTime |-> <<48, 48, 58, 48, 48>>,                                \* "00:00"
     days |-> {"Sun"}, active |-> TRUE]

ClassOff ==
    [id |-> "7", name |-> "Off", startTime |-> <<48, 56, 58, 48, 48>>, \* "08:00"
     endTime |-> <<48, 56, 58, 51, 48>>,                                \* "08:30"
     days |-> {"Sun", "Mon"}, active |-> FALSE]

ClassNoDays ==
    [id |-> "8", name |-> "N", startTime |-> <<48, 56, 58, 49, 48>>,   \* "08:10"
     endTime |-> <<48, 56, 58, 51, 48>>,                                \* "08:30"
     days |-> {}, active |-> TRUE]

MatchSchedules ==
    {<<ClassA, ClassB31>>, <<ClassC, ClassD>>, <<ClassE, ClassA>>,
     <<ClassB31, ClassA>>, <<ClassF, ClassC>>, <<ClassOff, ClassNoDays, ClassA>>}

MatchInit ==
    /\ now \in {60 * m : m \in 0..(MatchDays * 1440 - 1)}
    /\ stored \in MatchSchedules
    /\ storedParses = TRUE
    /\ currentUser \in Users
    /\ classes = stored
    /\ currentTime = now
    /\ firedAlarms = {}
    /\ lastMinute = -1
    /\ activeAlarm = NoAlarm
    /\ onmessageAlarm = NoAlarm
    /\ isTestingSound = FALSE
    /\ isAudioUnlocked = FALSE
    /\ autoStopTimerRef = 0
    /\ timers = {}
    /\ audioPaused = TRUE
    /\ pendingPlay = {}
    /\ permission = "granted"
    /\ notifications = {}
    /\ mediaStop = TRUE
    /\ passed = {}
    /\ dropped = {}
    /\ repeats = {}
    /\ ringingSince = -1
    /\ advances = 0
    /\ InitWorker
    /\ motivation = ""
    /\ storedSound = NoStoredSound
    /\ customAlarmSound = NoSound
    /\ customSoundName = ""
    /\ readers = {}
    /\ lastUpload = "none"

MatchNext == \E ok \in BOOLEAN : Tick(ok)

SpecMatch == MatchInit /\ [][MatchNext]_vars

\* The same minutes and schedules, with the test toggle and stop() between
\* the ticks
KindNext ==
    \/ \E ok \in BOOLEAN : Tick(ok)
    \/ \E ok \in BOOLEAN : ToggleTestSound(ok)
    \/ MediaSessionStop

SpecKind == MatchInit /\ [][KindNext]_vars

----------------------------------------------------------------------------
(* The worker clock of workerCode, under any sequence of messages *)

\* The number of 'start' messages one worker is sent
MaxStarts == 5

appVars == <<now, currentUser, classes, stored, storedParses, currentTime, firedAlarms, lastMinute,
             activeAlarm, onmessageAlarm, isTestingSound, isAudioUnlocked,
             autoStopTimerRef, timers, audioPaused, pendingPlay, permission,
             notifications, mediaStop, passed, repeats, dropped, ringingSince, advances>>

WorkerSide == [timer |-> timer, intervals |-> intervals]

\* clearInterval: a null or stale handle clears nothing
clearInterval(live, id) == live \ {id}

\* setInterval hands out handles in increasing order; timer holds the last
setInterval(w) == w.timer + 1

\* Mutant of workerOnmessage: 'start' does not clear the interval running
workerOnmessageNoClear(w, data) ==
    IF data = "start"
    THEN [timer |-> setInterval(w), intervals |-> w.intervals \cup {setInterval(w)}]
    ELSE IF data = "stop"
    THEN [w EXCEPT !.intervals = clearInterval(@, w.timer)]
    ELSE w

\* self.onmessage of the worker
workerOnmessage(w, data) ==
    IF data = "start"
    THEN LET w1 == IF w.timer # 0
                   THEN [w EXCEPT !.intervals = clearInterval(@, w.timer)]
                   ELSE w
         IN  [timer |-> setInterval(w1), intervals |-> w1.intervals \cup {setInterval(w1)}]
    ELSE IF data = "stop"
    THEN [w EXCEPT !.intervals = clearInterval(@, w.timer)]
    ELSE w

WorkerMessage(data) ==
    /\ data = "start" => timer < MaxStarts
    /\ LET w == workerOnmessage(WorkerSide, data)
       IN  /\ timer' = w.timer
           /\ intervals' = w.intervals
    /\ lastMessage' = data
    /\ UNCHANGED appVars
    /\ UNCHANGED motivation
    /\ UNCHANGED soundVars

\* A worker that has been created and sent nothing yet
WorkerInit ==
    /\ InitStorage
    /\ InitState
    /\ InitPermission
    /\ timer = 0
    /\ intervals = {}
    /\ lastMessage = "none"

WorkerNext ==
    \/ \E data \in {"start", "stop"} : WorkerMessage(data)
    \/ \E ok \in BOOLEAN : Tick(ok)

SpecWorker == WorkerInit /\ [][WorkerNext]_vars

----------------------------------------------------------------------------
(* The custom alarm sound *)

\* The size limit of handleFileUpload, in bytes
MAX_SOUND_BYTES == 2 * 1024 * 1024

\* The files the user picks: name and size in bytes
Files ==
    {[name |-> "small.mp3", size |-> 1024],
     [name |-> "limit.mp3", size |-> MAX_SOUND_BYTES],
     [name |-> "over.mp3", size |-> MAX_SOUND_BYTES + 1]}

\* reader.readAsDataURL: base64 writes 4 characters for every 3 bytes
readAsDataURL(f) == [file |-> f.name, length |-> 4 * ((f.size + 2) \div 3)]

\* Mutant of handleFileUpload: the size is not tested
handleFileUploadAnySize(f, rs) == rs \cup {f}

\* handleFileUpload: the readers pending after the file input changed to f
handleFileUpload(f, rs) ==
    IF f.size > MAX_SOUND_BYTES THEN rs ELSE rs \cup {f}

\* The change event of the file input
FileChosen(f) ==
    /\ currentUser # ""
    /\ readers' = handleFileUpload(f, readers)
    /\ lastUpload' = IF f \in readers' THEN "reading" ELSE "rejected"
    /\ UNCHANGED appVars
    /\ UNCHANGED workerVars
    /\ UNCHANGED motivation
    /\ UNCHANGED <<customAlarmSound, customSoundName, storedSound>>

\* The save effect of the custom sound: the storage keys of the user
savedSound(sound, name) ==
    IF sound # NoSound THEN [sound |-> sound, name |-> name] ELSE NoStoredSound

\* reader.onload, then the effect of the new sound: it is saved for the user
\* and the audio element is given the new source and loaded
ReaderLoaded(f) ==
    /\ f \in readers
    /\ readers' = readers \ {f}
    /\ customAlarmSound' = readAsDataURL(f)
    /\ customSoundName' = f.name
    /\ IF currentUser # "" /\ customAlarmSound' # customAlarmSound
       THEN /\ storedSound' = savedSound(customAlarmSound', customSoundName')
            /\ SetAlarmSide(load(AlarmSide))
       ELSE /\ UNCHANGED storedSound
            /\ SetAlarmSide(AlarmSide)
    /\ UNCHANGED <<now, currentUser, classes, stored, storedParses, currentTime, firedAlarms,
                   lastMinute, onmessageAlarm, permission, notifications, mediaStop,
                   passed, repeats, dropped, ringingSince, advances, lastUpload>>
    /\ UNCHANGED workerVars
    /\ UNCHANGED motivation

\* resetToDefaultSound; the click bubbles to the dashboard element
ResetToDefaultSound(ok) ==
    /\ currentUser # ""
    /\ customAlarmSound # NoSound
    /\ customAlarmSound' = NoSound
    /\ customSoundName' = ""
    /\ storedSound' = savedSound(customAlarmSound', customSoundName')
    /\ SetAlarmSide(load(unlockAudio(AlarmSide, isAudioUnlocked, ok)))
    /\ UNCHANGED <<now, currentUser, classes, stored, storedParses, currentTime, firedAlarms,
                   lastMinute, onmessageAlarm, permission, notifications, mediaStop,
                   passed, repeats, dropped, ringingSince, advances, readers, lastUpload>>
    /\ UNCHANGED workerVars
    /\ UNCHANGED motivation

SoundNext ==
    \/ \E f \in Files : FileChosen(f)
    \/ \E f \in Files : ReaderLoaded(f)
    \/ \E ok \in BOOLEAN : ResetToDefaultSound(ok)
    \/ \E u \in Users, ok \in BOOLEAN : Login(u, ok)
    \/ \E ok \in BOOLEAN : Logout(ok)
    \/ \E ok \in BOOLEAN : ToggleTestSound(ok)
    \/ PlayStarts

SpecSound == Init /\ [][SoundNext]_vars

----------------------------------------------------------------------------
(* Saved schedules that are not what the application wrote *)

\* A saved record whose times are not HH:mm
ClassBad ==
    [id |-> "9", name |-> "Bad", startTime |-> <<56, 58, 48, 48>>,     \* "8:00"
     endTime |-> <<56, 58, 51, 48>>,                                    \* "8:30"
     days |-> {"Sun", "Mon"}, active |-> TRUE]

LoadSchedules == {<<ClassA, ClassBad, ClassB31>>, <<ClassBad, ClassA>>}

\* Two digits, a colon, two digits
isHHmm(s) ==
    /\ Len(s) = 5
    /\ s[3] = 58
    /\ \A k \in {1, 2, 4, 5} : s[k] \in 48..57

\* A record as the SchoolClass interface describes it
wellFormed(c) == isHHmm(c.startTime) /\ isHHmm(c.endTime)

\* The page is opened with nobody logged in; the saved text either parses to
\* the records of stored or is rejected by JSON.parse
LoadInit ==
    /\ stored \in LoadSchedules
    /\ storedParses \in BOOLEAN
    /\ currentUser = ""
    /\ classes = <<>>
    /\ storedSound = NoStoredSound
    /\ InitState
    /\ InitPermission
    /\ InitWorker

SpecLoad == LoadInit /\ [][Next]_vars

----------------------------------------------------------------------------
(* Edits of the class list *)

\* The longest list the form may build
MaxClasses == 3

\* What the form holds when it is submitted: name, times and days
Forms ==
    {[name |-> "G", startTime |-> <<48, 56, 58, 49, 48>>,              \* "08:10"
      endTime |-> <<48, 56, 58, 50, 57>>,                               \* "08:29"
      days |-> {"Sun"}]}

\* The ids Date.now().toString() gives to new classes
NewIds == {"10"}

\* handleSubmit without editingClassId: the new class is appended, enabled
handleSubmitNew(cs, id, f) ==
    Append(cs, [id |-> id, name |-> f.name, startTime |-> f.startTime,
                endTime |-> f.endTime, days |-> f.days, active |-> TRUE])

\* handleSubmit with editingClassId: name, times and days are replaced
handleSubmitEdit(cs, id, f) ==
    [k \in 1..Len(cs) |->
        IF cs[k].id = id
        THEN [cs[k] EXCEPT !.name = f.name, !.startTime = f.startTime,
                           !.endTime = f.endTime, !.days = f.days]
        ELSE cs[k]]

\* confirmDelete
confirmDelete(cs, id) == SelectSeq(cs, LAMBDA c : c.id # id)

\* handleDragEnd: the dragged item is spliced out and spliced in at the
\* position of the item it was dropped over
handleDragEnd(cs, from, to) ==
    LET removed == [k \in 1..(Len(cs) - 1) |-> IF k < from THEN cs[k] ELSE cs[k + 1]]
    IN  [k \in 1..Len(cs) |->
            IF k < to THEN removed[k]
            ELSE IF k = to THEN cs[from]
            ELSE removed[k - 1]]

\* setClasses(cs) by a handler that leaves the alarm side as st; the list is
\* saved and the worker effect runs again with the alarm state of this render
SetClasses(cs, st) ==
    /\ currentUser # ""
    /\ classes' = cs
    /\ stored' = cs
    /\ storedParses' = TRUE
    /\ onmessageAlarm' = activeAlarm
    /\ SetAlarmSide(st)
    /\ UNCHANGED workerVars
    /\ UNCHANGED motivation
    /\ UNCHANGED soundVars
    /\ UNCHANGED <<now, currentUser, currentTime, firedAlarms, lastMinute, permission,
                   notifications, mediaStop, passed, repeats, dropped, ringingSince,
                   advances>>

SubmitNew(id, f, ok) ==
    /\ Len(classes) < MaxClasses
    /\ \A k \in 1..Len(classes) : classes[k].id # id
    /\ SetClasses(handleSubmitNew(classes, id, f),
                  unlockAudio(AlarmSide, isAudioUnlocked, ok))

SubmitEdit(i, f, ok) ==
    /\ i \in 1..Len(classes)
    /\ SetClasses(handleSubmitEdit(classes, classes[i].id, f),
                  unlockAudio(AlarmSide, isAudioUnlocked, ok))

\* Mutant of ConfirmDelete: the deleted class is taken out of the fired set
ConfirmDeleteForgetsFired(i, ok) ==
    /\ i \in 1..Len(classes)
    /\ currentUser # ""
    /\ classes' = confirmDelete(classes, classes[i].id)
    /\ stored' = classes'
    /\ storedParses' = TRUE
    /\ onmessageAlarm' = activeAlarm
    /\ firedAlarms' = firedAlarms \ {classes[i].id}
    /\ SetAlarmSide(unlockAudio(AlarmSide, isAudioUnlocked, ok))
    /\ UNCHANGED workerVars
    /\ UNCHANGED motivation
    /\ UNCHANGED soundVars
    /\ UNCHANGED <<now, currentUser, currentTime, lastMinute, permission,
                   notifications, mediaStop, passed, repeats, dropped, ringingSince,
                   advances>>

\* The confirm button of the delete dialog; the click bubbles to the dashboard
ConfirmDelete(i, ok) ==
    /\ i \in 1..Len(classes)
    /\ SetClasses(confirmDelete(classes, classes[i].id),
                  unlockAudio(AlarmSide, isAudioUnlocked, ok))

DragEnd(from, to) ==
    /\ from \in 1..Len(classes)
    /\ to \in 1..Len(classes)
    /\ SetClasses(handleDragEnd(classes, from, to), AlarmSide)

\* The audio element accepts every play() of these steps; the first class is
\* the one edited, toggled and dragged
ListEdit ==
    \/ \E id \in NewIds, f \in Forms : SubmitNew(id, f, TRUE)
    \/ \E i \in ToggleIndices, f \in Forms : SubmitEdit(i, f, TRUE)
    \/ \E i \in ToggleIndices : ConfirmDelete(i, TRUE)
    \/ \E from \in ToggleIndices : DragEnd(from, from + 1)
    \/ \E i \in ToggleIndices : ToggleClassActive(i, TRUE)

\* Time passes from one auto-stop deadline to the next only
EditNext ==
    \/ \E d \in ToDeadline : Advance(d)
    \/ Tick(TRUE)
    \/ AutoStop
    \/ StopButton(TRUE)
    \/ MediaSessionStop
    \/ ToggleTestSound(TRUE)
    \/ \E u \in Users : Login(u, TRUE)
    \/ Logout(TRUE)
    \/ ListEdit

\* The first saved schedule is loaded for the user the page restored
EditInit ==
    /\ stored = <<ClassA, ClassB30>>
    /\ storedParses = TRUE
    /\ currentUser \in Users
    /\ classes = stored
    /\ storedSound = NoStoredSound
    /\ InitState
    /\ InitPermission
    /\ InitWorker

SpecEdit == EditInit /\ [][EditNext]_vars

----------------------------------------------------------------------------
(* A specification for the failures of one tick: the Notification surface  *)
(* may be missing or throwing, and the advice request settles either way.   *)

\* The request of fetchMotivation settles: the advice, or the text of the
\* catch clause when anything in it failed
FetchMotivationSettles(okFetch) ==
    /\ currentUser # ""
    /\ motivation' = IF okFetch THEN "advice" ELSE "fallback"
    /\ UNCHANGED appVars
    /\ UNCHANGED workerVars
    /\ UNCHANGED soundVars

\* A browser that shows notifications, and one with no Notification global
\* or whose Notification constructor throws, so that lines 274-275 raise an
\* exception
ClockInit ==
    /\ InitStorage
    /\ InitState
    /\ permission \in {"granted", "unavailable"}
    /\ InitWorker

\* The clock, the ticks, the ways an alarm ends, login and logout, and the
\* advice request
ClockNext ==
    \/ \E d \in Delays \cup ToDeadline : Advance(d)
    \/ \E ok \in BOOLEAN : Tick(ok)
    \/ AutoStop
    \/ \E ok \in BOOLEAN : StopButton(ok)
    \/ \E u \in Users, ok \in BOOLEAN : Login(u, ok)
    \/ \E ok \in BOOLEAN : Logout(ok)
    \/ \E okFetch \in BOOLEAN : FetchMotivationSettles(okFetch)

SpecClock == ClockInit /\ [][ClockNext]_vars

----------------------------------------------------------------------------
(* Properties *)

\* Minute of the day of an instant, as a number
minuteOfDayAt(t) == getHours(t) * 60 + getMinutes(t)

absDay(t) == t \div 86400

AnyTick == \E ok \in BOOLEAN : Tick(ok)

\* The classes of the list that are a boundary hit at t and are not in the
\* fired set once the minute rollover of this tick is applied
PassingAt(t) ==
    {i \in 1..Len(classes) :
        /\ isBoundaryHit(classes[i], t)
        /\ classes[i].id \notin resetOnNewMinute(TickSide, t).firedAlarms}

\* C1: within one wall-clock minute a class id passes the dedup check, and so
\* triggers an alarm, at most once, however many ticks of that minute evaluate
\* its end boundary and whether or not the alarm is stopped in between.
C1_AtMostOncePerMinute == repeats = {}

\* C1 witness: a class fired, the alarm is off again, and a later tick of the
\* same minute was processed past the guard while the class is still a hit.
C1_Witness ==
    \E p \in passed, i \in 1..Len(classes) :
        /\ classes[i].id = p[1]
        /\ isBoundaryHit(classes[i], currentTime)
        /\ absMinute(currentTime) = absMinute(p[2])
        /\ currentTime > p[2]
        /\ lastMinute = getMinutes(currentTime)
        /\ ~activeAlarm.isActive
        /\ ~checkGuard(currentUser, onmessageAlarm)

\* C2: when a tick is processed while a user is logged in and no alarm is
\* ringing, every enabled class active that day whose end minute it is has
\* triggered exactly one alarm that day, however long the clock was idle.
C2_ExactlyOncePerDay ==
    [][(AnyTick /\ currentUser # "" /\ ~activeAlarm.isActive) =>
         \A i \in 1..Len(classes) :
             isBoundaryHit(classes[i], now) =>
                 /\ Cardinality({p \in passed' :
                        p[1] = classes[i].id /\ absDay(p[2]) = absDay(now)}) = 1
                 /\ \A r \in repeats' : r[1] # classes[i].id]_vars

\* C3: a tick processed while an alarm is ringing leaves the active event and
\* the auto-stop deadline as they are, and a tick that starts the ringing
\* leaves the first passing class of the list as the active event.
C3_TickNeverPreempts ==
    [][AnyTick =>
         /\ activeAlarm.isActive =>
                (activeAlarm' = activeAlarm /\ timers' = timers)
         /\ (~activeAlarm.isActive /\ activeAlarm'.isActive) =>
                \E i \in PassingAt(now) :
                    /\ activeAlarm'.className = classes[i].name
                    /\ \A j \in PassingAt(now) : i <= j]_vars

\* C4: the test toggle pressed while an alarm is ringing, when it takes its
\* trigger branch, leaves the active event and the auto-stop deadline as they are.
C4_TestNeverPreempts ==
    [][((\E ok \in BOOLEAN : ToggleTestSound(ok))
            /\ activeAlarm.isActive /\ ~isTestingSound) =>
         (activeAlarm' = activeAlarm /\ timers' = timers)]_vars

\* C5: from a trigger that started the ringing, with no stop() since, the alarm
\* rings at every instant before 20 seconds have elapsed and the clock never
\* moves past that instant with the alarm still ringing.
C5_AutoStopAtExactlyTwenty ==
    ringingSince >= 0 =>
        /\ activeAlarm.isActive
        /\ now <= ringingSince + AUTO_STOP_SECONDS

AlarmFields(st) ==
    <<st.activeAlarm, st.isTestingSound, st.autoStopTimerRef, st.timers>>

\* C6: every call of stop() leaves the alarm off with no auto-stop timer
\* outstanding; stop() alone leaves playback paused, changes none of the alarm
\* fields when the alarm is off, and a second stop() changes nothing at all;
\* the auto-stop timeout has the effect of stop() on the state it runs in.
C6_StopIsIdempotent ==
    [][/\ ((\E ok \in BOOLEAN :
                StopButton(ok) \/ Logout(ok) \/ (ToggleTestSound(ok) /\ isTestingSound))
            \/ MediaSessionStop \/ AutoStop) =>
               (activeAlarm' = NoAlarm /\ timers' = {} /\ autoStopTimerRef' = 0)
       /\ (MediaSessionStop \/ AutoStop) =>
               /\ audioPaused'
               /\ stopAlarm(AlarmSide') = AlarmSide'
               /\ AlarmSide' = stopAlarm(AlarmSide)
       /\ (MediaSessionStop /\ ~activeAlarm.isActive) =>
               AlarmFields(AlarmSide') = AlarmFields(AlarmSide)]_vars

\* C6 witness: an alarm a class triggered has been ended by the auto-stop
\* timeout or by stop() at the instant of its deadline.
C6_Witness ==
    \E p \in passed :
        /\ now = p[2] + AUTO_STOP_SECONDS
        /\ ~activeAlarm.isActive
        /\ timers = {}
        /\ audioPaused

\* C7: on every tick whose minute differs from the last-seen minute, the
\* last-seen minute becomes the tick's minute and the fired set keeps no id
\* but those of the classes that are a boundary hit on this tick.
C7_RolloverOnEveryTick ==
    [][(AnyTick /\ getMinutes(now) # lastMinute) =>
         /\ lastMinute' = getMinutes(now)
         /\ \A id \in firedAlarms' :
                \E i \in 1..Len(classes) :
                    classes[i].id = id /\ isBoundaryHit(classes[i], now)]_vars

\* C8: the fired set holds only ids that passed the check during the minute of
\* the most recently delivered tick, and is empty when the last-seen minute is
\* not that tick's minute.
C8_FiredSetIsOfThisMinute ==
    /\ lastMinute # getMinutes(currentTime) => firedAlarms = {}
    /\ \A id \in firedAlarms :
           \E p \in passed :
               p[1] = id /\ absMinute(p[2]) = absMinute(currentTime)

\* C9: an enabled class active on the tick's weekday is a boundary hit exactly
\* when the tick's minute of the day is the minute of its end time, and a
\* processed tick fires exactly those classes.
C9_BoundaryExact ==
    /\ \A i \in 1..Len(classes) :
           activeToday(classes[i], now) =>
               (isBoundaryHit(classes[i], now)
                    <=> minuteOfDayAt(now) = minutesOfDay(classes[i].endTime))
    /\ lastMinute # -1 =>
           firedAlarms = {classes[i].id : i \in {j \in 1..Len(classes) :
                              /\ activeToday(classes[j], currentTime)
                              /\ minuteOfDayAt(currentTime)
                                     = minutesOfDay(classes[j].endTime)}}

\* C9 witness: a tick was processed at the end minute of a class and fired it.
C9_Witness ==
    /\ lastMinute # -1
    /\ \E i \in 1..Len(classes) :
           /\ classes[i].id \in firedAlarms
           /\ minuteOfDayAt(currentTime) = minutesOfDay(classes[i].endTime)
           /\ activeAlarm.isActive

\* C10: an enabled class active today is ongoing exactly when
\* start <= HH:MM < end as minutes of the day, and a class is reported as
\* ongoing exactly when some class is.
C10_OngoingWindow ==
    /\ \A i \in 1..Len(classes) :
           activeToday(classes[i], currentTime) =>
               (isOngoing(classes[i], currentTime)
                    <=> /\ minutesOfDay(classes[i].startTime) <= minuteOfDayAt(currentTime)
                        /\ minuteOfDayAt(currentTime) < minutesOfDay(classes[i].endTime))
    /\ currentOngoingClass(classes, currentTime) # 0
           <=> \E i \in 1..Len(classes) :
                   /\ activeToday(classes[i], currentTime)
                   /\ minutesOfDay(classes[i].startTime) <= minuteOfDayAt(currentTime)
                   /\ minuteOfDayAt(currentTime) < minutesOfDay(classes[i].endTime)

\* C10 witness: a tick was processed at the end minute of a class that was
\* ongoing until then, and the class is no longer reported as ongoing.
C10_Witness ==
    /\ lastMinute # -1
    /\ \E i \in 1..Len(classes) :
           /\ activeToday(classes[i], currentTime)
           /\ minuteOfDayAt(currentTime) = minutesOfDay(classes[i].endTime)
           /\ ~isOngoing(classes[i], currentTime)
           /\ currentOngoingClass(classes, currentTime) # i

\* C11: every trigger, from the schedule or from the test toggle, leaves the
\* alarm ringing with the auto-stop timeout armed 20 seconds ahead, whether or
\* not audio is unlocked and whether or not play() is refused; a refused
\* play() only leaves isAudioUnlocked false.
C11_TriggerDespitePlaybackFailure ==
    [][\A ok \in BOOLEAN :
         ((Tick(ok) /\ ~checkGuard(currentUser, onmessageAlarm) /\ PassingAt(now) # {})
              \/ (ToggleTestSound(ok) /\ ~isTestingSound)) =>
             /\ activeAlarm'.isActive
             /\ autoStopTimerRef' # 0
             /\ timers' = {[id |-> autoStopTimerRef', at |-> now + AUTO_STOP_SECONDS]}
             /\ ok => ~audioPaused'
             /\ ~ok => ~isAudioUnlocked']_vars

\* C11 witness: an alarm rings with its timeout armed although the element
\* refused to play and audio is not unlocked.
C11_Witness ==
    /\ activeAlarm.isActive
    /\ timers # {}
    /\ audioPaused
    /\ pendingPlay = {}
    /\ ~isAudioUnlocked

\* C12: a notification is shown only by a tick that triggers a class at its
\* end time, only while the permission is granted, and it names that class;
\* test triggers and stops never show one.
C12_NotificationOnlyForScheduleEnd ==
    [][/\ notifications' # notifications =>
            /\ AnyTick
            /\ permission = "granted"
            /\ \A n \in notifications' \ notifications :
                   /\ n.at = now
                   /\ n.className # TEST_LABEL
                   /\ \E i \in PassingAt(now) : classes[i].name = n.className
       /\ (\E ok \in BOOLEAN : ToggleTestSound(ok) \/ StopButton(ok))
              \/ MediaSessionStop \/ AutoStop
            => notifications' = notifications]_vars

\* C12 witness: the only notification of this instant is the schedule's,
\* although the test alarm is the one ringing now
C12_Witness ==
    /\ permission = "granted"
    /\ \E n \in notifications : n.at = now
    /\ activeAlarm.isActive
    /\ activeAlarm.className = TEST_LABEL

\* C13: in every reachable state at most one auto-stop timeout is
\* outstanding, it is the one autoStopTimerRef holds, and every step that runs
\* stopAlarm (stop button, media-session stop, the timeout itself) leaves none
\* outstanding.
C13_AtMostOneTimer ==
    /\ [](/\ Cardinality(timers) <= 1
          /\ \A tm \in timers : tm.id = autoStopTimerRef)
    /\ [][(\E ok \in BOOLEAN : StopButton(ok)) \/ MediaSessionStop \/ AutoStop
              => timers' = {}]_vars

\* C13 witness: an alarm was preempted by a later trigger, so a timeout was
\* armed while another was outstanding, and exactly one is outstanding
C13_Witness ==
    /\ ringingSince >= 0
    /\ Cardinality(timers) = 1
    /\ \E tm \in timers : tm.at > ringingSince + AUTO_STOP_SECONDS

\* C17: isAudioUnlocked becomes true only when a pending probe play() of
\* unlockAudio resolves; a click whose probe is refused changes nothing and
\* the handler completes; while isAudioUnlocked is true no handler issues a
\* probe.
C17_UnlockOnlyOnProbeSuccess ==
    [][/\ (~isAudioUnlocked /\ isAudioUnlocked') =>
              (PlayStarts /\ "probe" \in pendingPlay)
       /\ DashboardClick(FALSE) => AlarmSide' = AlarmSide
       /\ isAudioUnlocked =>
              ("probe" \in pendingPlay' => "probe" \in pendingPlay)]_vars

\* C17 witness: the probe has resolved and a handler that calls unlockAudio
\* has run since (the test toggle, whose play() is still pending), without a
\* new probe
C17_Witness ==
    /\ isAudioUnlocked
    /\ isTestingSound
    /\ "alarm" \in pendingPlay
    /\ "probe" \notin pendingPlay

\* The classes of the list whose window [start, end), as minutes of the day,
\* contains the instant t on one of their days while they are enabled
WindowsContaining(cs, t) ==
    {i \in 1..Len(cs) :
        /\ cs[i].active /\ dayNameOf(t) \in cs[i].days
        /\ minutesOfDay(cs[i].startTime) <= minuteOfDayAt(t)
        /\ minuteOfDayAt(t) < minutesOfDay(cs[i].endTime)}

\* C14: one class at most is reported as ongoing, and when the windows of
\* several enabled classes of today contain the instant, the class reported
\* is the one that comes first in the list.
C14_FirstInListOrderWins ==
    LET cand == WindowsContaining(classes, currentTime)
        found == currentOngoingClass(classes, currentTime)
    IN  /\ found \in 0..Len(classes)
        /\ cand = {} => found = 0
        /\ cand # {} => (found \in cand /\ \A j \in cand : found <= j)

\* C14 witness: two windows contain the instant, and the class reported is
\* the first of the list although the other one starts earlier
C14_Witness ==
    /\ lastMinute # -1
    /\ Cardinality(WindowsContaining(classes, currentTime)) = 2
    /\ currentOngoingClass(classes, currentTime) = 1
    /\ strLess(classes[2].startTime, classes[1].startTime)

\* "00:00"
MIDNIGHT == <<48, 48, 58, 48, 48>>

\* C15: a class whose end time is "00:00" ends at the end of its day: on its
\* days it is ongoing from its start minute to the end of the day, and it is
\* not fired in the first minute of the day.
C15_MidnightEndIsEndOfDay ==
    \A i \in 1..Len(classes) :
        (classes[i].endTime = MIDNIGHT /\ activeToday(classes[i], currentTime)) =>
            /\ isOngoing(classes[i], currentTime)
                   <=> minutesOfDay(classes[i].startTime) <= minuteOfDayAt(currentTime)
            /\ minuteOfDayAt(currentTime) = 0 => classes[i].id \notin firedAlarms

\* C16: a class that is disabled, or whose days do not contain the tick's
\* weekday (an empty set of days included), is not ongoing, is not a boundary
\* hit, and a processed tick neither fires it, rings for it nor shows a
\* notification for it, whatever its times.
C16_InactiveClassIsInert ==
    \A i \in 1..Len(classes) :
        (~classes[i].active \/ dayNameOf(currentTime) \notin classes[i].days) =>
            /\ ~isOngoing(classes[i], currentTime)
            /\ currentOngoingClass(classes, currentTime) # i
            /\ ~isBoundaryHit(classes[i], currentTime)
            /\ classes[i].id \notin firedAlarms
            /\ activeAlarm.className # classes[i].name
            /\ \A n \in notifications : n.className # classes[i].name

\* C16 witness: a tick was processed at the end minute of a disabled class
\* and of a class without days, inside their windows' last minute; it fired
\* the enabled class that ends then and neither of them
C16_Witness ==
    /\ lastMinute # -1
    /\ firedAlarms # {}
    /\ \E i, j \in 1..Len(classes) :
           /\ ~classes[i].active /\ dayNameOf(currentTime) \in classes[i].days
           /\ classes[j].active /\ classes[j].days = {}
           /\ classes[i].endTime = timeStrOf(currentTime)
           /\ classes[j].endTime = timeStrOf(currentTime)
           /\ classes[i].id \notin firedAlarms
           /\ classes[j].id \notin firedAlarms

\* C18: whatever 'start' and 'stop' messages the worker has handled, at most
\* one interval is live; a 'stop' leaves none live, and a 'stop' that follows
\* a 'stop' or precedes every 'start' changes nothing of the worker; a tick
\* is delivered only while the last message handled is a 'start'.
C18_OneIntervalStopIdempotent ==
    /\ [](Cardinality(intervals) <= 1)
    /\ [][WorkerMessage("stop") =>
              /\ intervals' = {}
              /\ timer' = timer
              /\ lastMessage # "start" => intervals' = intervals]_vars
    /\ [][AnyTick => lastMessage = "start"]_vars

\* C18 witness: the worker was started more than once, delivered a tick that
\* the alarm check processed, and is stopped
C18_Witness ==
    /\ lastMessage = "stop"
    /\ timer >= 2
    /\ intervals = {}
    /\ lastMinute # -1

\* C19: a file of more than 2 MiB given to the file input changes neither
\* the custom sound, nor its name, nor the saved sound, nor the pending
\* reads, nor the alarm and audio state; so no payload of such a file is ever
\* held or saved.
C19_OversizeUploadRejected ==
    /\ [][\A f \in Files :
              (FileChosen(f) /\ f.size > MAX_SOUND_BYTES) =>
                  /\ UNCHANGED <<customAlarmSound, customSoundName, storedSound, readers>>
                  /\ AlarmSide' = AlarmSide]_vars
    /\ [](/\ \A f \in readers : f.size <= MAX_SOUND_BYTES
          /\ \A f \in Files :
                 f.size > MAX_SOUND_BYTES =>
                     /\ customAlarmSound.file # f.name
                     /\ customSoundName # f.name
                     /\ storedSound.sound.file # f.name
                     /\ storedSound.name # f.name)

\* C19 witness: the last upload was rejected while a custom sound chosen
\* before it is selected and saved
C19_Witness ==
    /\ lastUpload = "rejected"
    /\ customAlarmSound # NoSound
    /\ storedSound = [sound |-> customAlarmSound, name |-> customSoundName]
    /\ readers = {}

\* C20: loading a saved schedule that holds a malformed record skips that
\* record only: after the login the list is made of the well-formed records
\* of the saved list, in their order.
C20_MalformedRecordSkipped ==
    [][\A u \in Users, ok \in BOOLEAN :
           Login(u, ok) => classes' = SelectSeq(stored, wellFormed)]_vars

\* C21: a boundary hit of a class evaluated on a tick while an alarm rings is
\* dropped for good: no later tick of the same minute, made when no alarm
\* rings any more, triggers an alarm for that class.
C21_HitWhileRingingIsDropped ==
    [][\A ok \in BOOLEAN :
           (TickRecording(ok) /\ ~activeAlarm.isActive) =>
               \A p \in passed' \ passed : <<p[1], absMinute(now)>> \notin dropped]_vars

\* C22: a tick shows a notification only for the trigger that takes the
\* alarm from off to ringing: at most one notification per tick, none on a
\* tick made while an alarm rings, and none for a class that is not the
\* active alarm once the tick is processed.
C22_NotificationOnlyOnIdleToRinging ==
    [][AnyTick =>
           LET shown == notifications' \ notifications
           IN  /\ Cardinality(shown) <= 1
               /\ shown # {} =>
                      /\ ~activeAlarm.isActive
                      /\ activeAlarm'.isActive
                      /\ \A n \in shown : n.className = activeAlarm'.className]_vars

\* C23: the fired set and the last-seen minute change only on a tick; the
\* stop button, the media-session stop, the auto-stop timeout, the test
\* toggle, login, logout and every edit of the class list (new class, edited
\* class, deleted class, toggled class, reordered list) leave both as they
\* are.
C23_DedupRefsOwnedByTick ==
    [][/\ (firedAlarms' # firedAlarms \/ lastMinute' # lastMinute) => AnyTick
       /\ (\/ \E ok \in BOOLEAN : StopButton(ok) \/ ToggleTestSound(ok) \/ Logout(ok)
           \/ \E u \in Users, ok \in BOOLEAN : Login(u, ok)
           \/ MediaSessionStop
           \/ AutoStop
           \/ ListEdit)
              => UNCHANGED <<firedAlarms, lastMinute>>]_vars

\* C23 witness: a class that fired in the minute of the last tick has been
\* deleted from the list of the logged-in user, and its id is still in the
\* fired set
C23_Witness ==
    /\ currentUser # ""
    /\ lastMinute = getMinutes(now)
    /\ \E id \in firedAlarms : \A k \in 1..Len(classes) : classes[k].id # id

\* C24: a tick in the minute of some class's start time that is the end time
\* of no enabled class of today changes nothing of the alarm, the audio, the
\* timeout or the notifications; an alarm a tick sets is of type 'end', and
\* the alarm the test toggle sets is of type 'start'.
C24_OnlyEndTimesFire ==
    [][/\ (/\ AnyTick
           /\ \E i \in 1..Len(classes) : timeStrOf(now) = classes[i].startTime
           /\ \A i \in 1..Len(classes) :
                  ~(/\ classes[i].active /\ dayNameOf(now) \in classes[i].days
                    /\ timeStrOf(now) = classes[i].endTime))
              => (AlarmSide' = AlarmSide /\ notifications' = notifications)
       /\ (AnyTick /\ activeAlarm' # activeAlarm) => activeAlarm'.type = "end"
       /\ \A ok \in BOOLEAN :
              (ToggleTestSound(ok) /\ activeAlarm'.isActive) =>
                  (activeAlarm'.type = "start" /\ activeAlarm'.className = TEST_LABEL)]_vars

\* C24 witness: a tick was processed in the start minute of an enabled class
\* of today and no alarm rings
C24_Witness ==
    /\ lastMinute = getMinutes(currentTime)
    /\ \E i \in 1..Len(classes) :
           /\ classes[i].active /\ dayNameOf(currentTime) \in classes[i].days
           /\ timeStrOf(currentTime) = classes[i].startTime
    /\ ~activeAlarm.isActive
    /\ firedAlarms = {}

\* C25: a failure while a tick is processed (play() refused, the Notification
\* surface missing or throwing, the advice request failing) never stops the
\* clock: the worker's interval stays live in every reachable state, no
\* step of the application changes the worker, and every tick is still
\* handled: it sets the displayed time and, when the handler's guard lets
\* it through, it does the minute rollover and triggers the first class due.
C25_FailureNeverStopsClock ==
    /\ [](intervals # {})
    /\ [][/\ UNCHANGED workerVars
          /\ AnyTick =>
                /\ currentTime' = now
                /\ ~checkGuard(currentUser, onmessageAlarm) =>
                      /\ lastMinute' = getMinutes(now)
                      /\ \A i \in 1..Len(classes) :
                             (/\ shouldFire(classes[i], resetOnNewMinute(TickSide, now), now)
                              /\ \A j \in 1..(i - 1) :
                                     ~shouldFire(classes[j], resetOnNewMinute(TickSide, now), now))
                             => /\ classes[i].id \in firedAlarms'
                                /\ activeAlarm'.isActive]_vars

\* A tick was handled after a trigger whose notification threw, with the
\* advice request failed and playback refused
C25_Witness ==
    /\ permission = "unavailable"
    /\ motivation = "fallback"
    /\ ringingSince >= 0
    /\ currentTime > ringingSince
    /\ lastMinute = getMinutes(currentTime)
    /\ ~isAudioUnlocked
    /\ intervals # {}

\* C26: in every reachable state an auto-stop timeout is outstanding exactly
\* when an alarm is ringing, and then autoStopTimerRef holds a handle; no
\* handle is held while the alarm is off.
C26_TimerIffRinging ==
    /\ (timers # {}) <=> activeAlarm.isActive
    /\ (autoStopTimerRef # 0) <=> activeAlarm.isActive

\* C26 witness: after a class has fired, the test alarm rings with its
\* deadline ahead
C26_Witness ==
    /\ passed # {}
    /\ activeAlarm.isActive
    /\ activeAlarm.className = TEST_LABEL
    /\ \E tm \in timers : tm.at > now

\* C27: isTestingSound is true only while the active alarm is the test alarm
\* toggleTestSound triggered: never while the alarm is off and never while
\* the active alarm is one a class triggered; so a press of the test toggle
\* that stops an alarm stops the test alarm.
C27_TestFlagOnlyForTestAlarm ==
    /\ [](isTestingSound =>
             /\ activeAlarm.isActive
             /\ activeAlarm.type = "start"
             /\ activeAlarm.className = TEST_LABEL)
    /\ [][(\E ok \in BOOLEAN : ToggleTestSound(ok))
              /\ activeAlarm.isActive /\ ~activeAlarm'.isActive
              => activeAlarm.className = TEST_LABEL]_vars

\* C28: the probe of unlockAudio never silences a ringing alarm: when the
\* pending play() promises resolve while an alarm is ringing and the play()
\* of a trigger is among them, the audio element is still playing afterwards.
C28_ProbeNeverSilencesAlarm ==
    [][(PlayStarts /\ activeAlarm.isActive /\ "alarm" \in pendingPlay)
           => (activeAlarm'.isActive /\ ~audioPaused')]_vars

\* C29: while no user is logged in no alarm is ringing and no tick triggers
\* an alarm, arms a deadline or shows a notification; a logout made while an
\* alarm is ringing leaves the alarm off, no auto-stop timeout outstanding
\* and the audio element paused.
C29_NoUserNoAlarm ==
    /\ [](currentUser = "" => ~activeAlarm.isActive)
    /\ [][(AnyTick /\ currentUser = "") =>
              /\ activeAlarm' = activeAlarm
              /\ timers' = timers
              /\ notifications' = notifications]_vars
    /\ [][\A ok \in BOOLEAN :
              (Logout(ok) /\ activeAlarm.isActive) =>
                  /\ ~activeAlarm'.isActive
                  /\ timers' = {}
                  /\ autoStopTimerRef' = 0
                  /\ audioPaused']_vars

============================================================================
